---------------------------- MODULE Spec2Model ----------------------------
(***************************************************************************)
(* A model of the accessible selfie application: the geometry evaluator    *)
(* and guidance composer of src/shared/util.js, its announcement throttle, *)
(* and the render loop and capture handlers of src/index.js.               *)
(*                                                                         *)
(* Numbers.  Pixel coordinates are integers and the fractions of the code  *)
(* (0.15, 0.1, 0.4, 0.7, 1.3) are kept as exact percentages: a comparison  *)
(* a/2 <= w * 0.15 of the code is the comparison 100 * a <= 2 * 15 * w     *)
(* here, so that no rounding decides a boundary case.                      *)
(*                                                                         *)
(* Strings.  The texts of the program are TLA+ strings, and a substring    *)
(* test of the code (String.prototype.includes) is a substring search.     *)
(***************************************************************************)
EXTENDS Integers, Sequences, FiniteSets, Bags, TLC

(***************************************************************************)
(* Program constants.                                                      *)
(***************************************************************************)
CenterThresholdPct == 15
GuidanceThresholdPct == 10
IdealFaceWidthPct == 40
CloserPct == 70
FartherPct == 130
ThrottleMs == 3000
PanelUpdateMilliseconds == 1000
SaveDelayMs == 1500

(***************************************************************************)
(* Bounds of the model.                                                    *)
(***************************************************************************)
\* The frame sizes (canvas width, canvas height) the pure functions are
\* evaluated on; face boxes take every integer position inside the frame.
FrameSizes == {<<20, 10>>, <<25, 4>>}

Abs(n) == IF n < 0 THEN -n ELSE n

\* String.prototype.includes: pattern occurs in text at some position.
Includes(text, pattern) ==
    \E i \in 1..(Len(text) - Len(pattern) + 1) :
        SubSeq(text, i, i + Len(pattern) - 1) = pattern

(***************************************************************************)
(* Texts of the program.                                                   *)
(***************************************************************************)
StatusWaiting == "Face position: Waiting for detection..."
StatusCentered == "Face position: Centered" \o " [check]"
StatusNotCentered == "Face position: Not centered - Please center your face" \o " [cross]"
StatusNoFace == "Face position: No face detected"
CenteredMessage == "Your face is centered. You can take a photo now."
DefaultNotCenteredMessage == "Your face is not centered. Please adjust your position."
AlmostCenteredMessage == "Almost centered. Make small adjustments."

(***************************************************************************)
(* Geometry evaluator.  A face is a record [box |-> [xMin, yMin, xMax,     *)
(* yMax]].  Lengths that the code halves are kept doubled (suffix 2).      *)
(***************************************************************************)
Boxes(w, h) ==
    { [xMin |-> x1, yMin |-> y1, xMax |-> x2, yMax |-> y2] :
        x1 \in 0..w, x2 \in 0..w, y1 \in 0..h, y2 \in 0..h }

FaceBoxes(w, h) == { b \in Boxes(w, h) : b.xMax > b.xMin /\ b.yMax > b.yMin }

\* faceCenterX = box.xMin + faceWidth / 2, doubled.
FaceCenterX2(box) == 2 * box.xMin + (box.xMax - box.xMin)
FaceCenterY2(box) == 2 * box.yMin + (box.yMax - box.yMin)

isFaceCentered_strict(face, canvasWidth, canvasHeight) ==
    LET distanceX2 == Abs(FaceCenterX2(face.box) - canvasWidth)
        distanceY2 == Abs(FaceCenterY2(face.box) - canvasHeight)
    IN  /\ 100 * distanceX2 < 2 * CenterThresholdPct * canvasWidth
        /\ 100 * distanceY2 < 2 * CenterThresholdPct * canvasHeight

isFaceCentered(face, canvasWidth, canvasHeight) ==
    LET distanceX2 == Abs(FaceCenterX2(face.box) - canvasWidth)
        distanceY2 == Abs(FaceCenterY2(face.box) - canvasHeight)
    IN  /\ 100 * distanceX2 <= 2 * CenterThresholdPct * canvasWidth
        /\ 100 * distanceY2 <= 2 * CenterThresholdPct * canvasHeight

(***************************************************************************)
(* Guidance composer.                                                      *)
(***************************************************************************)
horizontalGuidance_swapped(face, canvasWidth) ==
    LET distanceX2 == FaceCenterX2(face.box) - canvasWidth
    IN  IF 100 * distanceX2 < -(2 * GuidanceThresholdPct * canvasWidth)
        THEN "Move left"
        ELSE IF 100 * distanceX2 > 2 * GuidanceThresholdPct * canvasWidth
             THEN "Move right"
             ELSE ""

horizontalGuidance(face, canvasWidth) ==
    LET distanceX2 == FaceCenterX2(face.box) - canvasWidth
    IN  IF 100 * distanceX2 < -(2 * GuidanceThresholdPct * canvasWidth)
        THEN "Move right"
        ELSE IF 100 * distanceX2 > 2 * GuidanceThresholdPct * canvasWidth
             THEN "Move left"
             ELSE ""

verticalGuidance(face, canvasHeight) ==
    LET distanceY2 == FaceCenterY2(face.box) - canvasHeight
    IN  IF 100 * distanceY2 < -(2 * GuidanceThresholdPct * canvasHeight)
        THEN "Move down"
        ELSE IF 100 * distanceY2 > 2 * GuidanceThresholdPct * canvasHeight
             THEN "Move up"
             ELSE ""

distanceGuidance_inclusive(face, canvasWidth) ==
    LET faceWidth == face.box.xMax - face.box.xMin
    IN  IF 10000 * faceWidth <= CloserPct * IdealFaceWidthPct * canvasWidth
        THEN "Move closer to the camera"
        ELSE IF 10000 * faceWidth >= FartherPct * IdealFaceWidthPct * canvasWidth
             THEN "Move farther from the camera"
             ELSE ""

\* faceWidth < idealFaceWidth * 0.7, idealFaceWidth = canvasWidth * 0.4.
distanceGuidance(face, canvasWidth) ==
    LET faceWidth == face.box.xMax - face.box.xMin
    IN  IF 10000 * faceWidth < CloserPct * IdealFaceWidthPct * canvasWidth
        THEN "Move closer to the camera"
        ELSE IF 10000 * faceWidth > FartherPct * IdealFaceWidthPct * canvasWidth
             THEN "Move farther from the camera"
             ELSE ""

\* Array.prototype.filter(part => part !== '').
RECURSIVE NonEmptyParts(_)
NonEmptyParts(parts) ==
    IF parts = <<>> THEN <<>>
    ELSE IF Head(parts) = "" THEN NonEmptyParts(Tail(parts))
         ELSE <<Head(parts)>> \o NonEmptyParts(Tail(parts))

\* Array.prototype.join(sep).
RECURSIVE Join(_, _)
Join(parts, sep) ==
    IF parts = <<>> THEN ""
    ELSE IF Len(parts) = 1 THEN Head(parts)
         ELSE Head(parts) \o sep \o Join(Tail(parts), sep)

GuidanceClauses(face, canvasWidth, canvasHeight) ==
    << horizontalGuidance(face, canvasWidth),
       verticalGuidance(face, canvasHeight),
       distanceGuidance(face, canvasWidth) >>

getFacePositionGuidance_unterminated(face, canvasWidth, canvasHeight) ==
    LET guidanceParts ==
            NonEmptyParts(GuidanceClauses(face, canvasWidth, canvasHeight))
    IN  IF Len(guidanceParts) = 0
        THEN AlmostCenteredMessage
        ELSE Join(guidanceParts, ". ")

getFacePositionGuidance(face, canvasWidth, canvasHeight) ==
    LET guidanceParts ==
            NonEmptyParts(GuidanceClauses(face, canvasWidth, canvasHeight))
    IN  IF Len(guidanceParts) = 0
        THEN AlmostCenteredMessage
        ELSE Join(guidanceParts, ". ") \o "."

VARIABLES
    canvasWidth,           \* ctx.canvas.width
    canvasHeight,          \* ctx.canvas.height
    probe,                 \* SpecGeom: the face evaluated and what the functions returned
    speechAvailable,       \* 'speechSynthesis' in window
    lastAnnouncedStatus,   \* util.js lastAnnouncedStatus
    lastAnnouncementTime,  \* util.js lastAnnouncementTime
    lastSpoken,            \* history: the last message the throttle spoke, and when
    isDev,                 \* index.js app: the page is served from localhost
    saves,                 \* SpecSave: the promise chains of savePhoto / downloadPhoto pending
    statusText,            \* textContent of the face-status element
    currentFaceGuidance,   \* window.currentFaceGuidance ("" while undefined)
    detector,              \* index.js detector: "null", or the state of the detector it holds
    isModelChanged,        \* STATE.isModelChanged
    isBackendChanged,      \* STATE.isBackendChanged (STATE.isFlagChanged is handled alike)
    tasks,                 \* the render loops: scheduled frames and awaited calls
    photoDrawn,            \* photo-canvas and captured-photo hold a still
    capturedDisplay,       \* captured-photo is displayed (style.display = 'block')
    downloadDisabled,      \* download-photo.disabled
    takeAndDownloadVisible,\* take-and-download is displayed
    startOverVisible,      \* start-over is displayed
    timers,                \* pending setTimeout callbacks of takeAndDownloadPhoto
    now,                   \* milliseconds since the page was loaded
    last                   \* the last operation: its name, its input, its effects

geomVars == <<canvasWidth, canvasHeight, probe>>
speechVars == <<speechAvailable, lastAnnouncedStatus, lastAnnouncementTime, lastSpoken>>
envVars == <<isDev, saves>>
faceVars == <<statusText, currentFaceGuidance>>
detectorVars == <<detector, isModelChanged, isBackendChanged>>
loopVars == <<tasks>>
photoVars == <<photoDrawn, capturedDisplay, downloadDisabled, takeAndDownloadVisible,
               startOverVisible, timers>>
appVars == <<envVars, faceVars, detectorVars, loopVars, photoVars>>
vars == <<geomVars, speechVars, appVars, now, last>>

NoProbe == [evaluated |-> FALSE]
NoInput == [none |-> TRUE]
NoOp == [op |-> "", input |-> NoInput, fx |-> <<>>]

\* An effect the program has on its platform: the function that issues it,
\* the call, its argument and whether the call returns (ok) or throws.
Effect(by, call, text, ok) == [by |-> by, call |-> call, text |-> text, ok |-> ok]
Calls(fx, call) == SelectSeq(fx, LAMBDA e : e.call = call)

NotSpoken == [any |-> FALSE, message |-> "", at |-> 0]

\* Date.now(): the page is loaded long after the epoch.
PageLoadDate == 1000 * ThrottleMs
DateNow == PageLoadDate + now

(***************************************************************************)
(* Announcement throttle.  The operators thread a record st of the speech  *)
(* state (lastAnnouncedStatus, lastAnnouncementTime; speaking is what      *)
(* window.speechSynthesis.speaking reads, an input from the platform when   *)
(* the handler starts) and of the effects fx issued so far by the running  *)
(* handler.  speakOk is whether speechSynthesis.speak returns (TRUE) or    *)
(* throws (FALSE).                                                         *)
(***************************************************************************)
SpeechState(wasSpeaking) ==
    [ speaking |-> wasSpeaking,
      lastAnnouncedStatus |-> lastAnnouncedStatus,
      lastAnnouncementTime |-> lastAnnouncementTime,
      fx |-> <<>> ]

Emit(st, by, call, text, ok) == [st EXCEPT !.fx = Append(@, Effect(by, call, text, ok))]

\* window.speechSynthesis.cancel()
Cancel(st, by) == [Emit(st, by, "cancel", "", TRUE) EXCEPT !.speaking = FALSE]

\* window.speechSynthesis.speak(new SpeechSynthesisUtterance(text))
Speak(st, by, text) == [Emit(st, by, "speak", text, TRUE) EXCEPT !.speaking = TRUE]

Throttled_inverted(st, message, dateNow) ==
    /\ message = st.lastAnnouncedStatus
    /\ dateNow - st.lastAnnouncementTime > ThrottleMs

Throttled_anyMessage(st, message, dateNow) ==
    dateNow - st.lastAnnouncementTime < ThrottleMs

Throttled(st, message, dateNow) ==
    /\ message = st.lastAnnouncedStatus
    /\ dateNow - st.lastAnnouncementTime < ThrottleMs

speakMessage_unguarded(st, message, interrupt, dateNow, speakOk) ==
    IF Throttled(st, message, dateNow) THEN st
    ELSE LET s1 == IF interrupt /\ st.speaking THEN Cancel(st, "speakMessage") ELSE st
         IN  IF speakOk
             THEN [ Speak(s1, "speakMessage", message) EXCEPT
                        !.lastAnnouncedStatus = message,
                        !.lastAnnouncementTime = dateNow ]
             ELSE Emit(s1, "speakMessage", "speak", message, FALSE)

speakMessage_recordsOnThrow(st, message, interrupt, dateNow, speakOk) ==
    IF ~speechAvailable THEN st
    ELSE IF Throttled(st, message, dateNow) THEN st
    ELSE LET s1 == IF interrupt /\ st.speaking THEN Cancel(st, "speakMessage") ELSE st
         IN  [ (IF speakOk
                THEN Speak(s1, "speakMessage", message)
                ELSE Emit(s1, "speakMessage", "speak", message, FALSE)) EXCEPT
                    !.lastAnnouncedStatus = message,
                    !.lastAnnouncementTime = dateNow ]

speakMessage_alwaysInterrupts(st, message, interrupt, dateNow, speakOk) ==
    IF ~speechAvailable THEN st
    ELSE IF Throttled(st, message, dateNow) THEN st
    ELSE LET s1 == IF st.speaking THEN Cancel(st, "speakMessage") ELSE st
         IN  IF speakOk
             THEN [ Speak(s1, "speakMessage", message) EXCEPT
                        !.lastAnnouncedStatus = message,
                        !.lastAnnouncementTime = dateNow ]
             ELSE Emit(s1, "speakMessage", "speak", message, FALSE)

speakMessage(st, message, interrupt, dateNow, speakOk) ==
    IF ~speechAvailable THEN st
    ELSE IF Throttled(st, message, dateNow) THEN st
    ELSE LET s1 == IF interrupt /\ st.speaking THEN Cancel(st, "speakMessage") ELSE st
         IN  IF speakOk
             THEN [ Speak(s1, "speakMessage", message) EXCEPT
                        !.lastAnnouncedStatus = message,
                        !.lastAnnouncementTime = dateNow ]
             ELSE Emit(s1, "speakMessage", "speak", message, FALSE)

\* The history of the throttle after a handler that issued the effects fx.
RECURSIVE SpokenAfter(_, _, _)
SpokenAfter(spoken, fx, dateNow) ==
    IF fx = <<>> THEN spoken
    ELSE SpokenAfter(
            IF Head(fx).by = "speakMessage" /\ Head(fx).call = "speak" /\ Head(fx).ok
            THEN [any |-> TRUE, message |-> Head(fx).text, at |-> dateNow]
            ELSE spoken,
            Tail(fx), dateNow)

(***************************************************************************)
(* Face status.  updateFaceStatus and drawResults thread the record st of  *)
(* the throttle extended with statusText and currentFaceGuidance.          *)
(***************************************************************************)
\* STATE.modelConfig.boundingBox as the application is configured.
boundingBox == TRUE

FaceState(wasSpeaking) ==
    [ speaking |-> wasSpeaking,
      lastAnnouncedStatus |-> lastAnnouncedStatus,
      lastAnnouncementTime |-> lastAnnouncementTime,
      fx |-> <<>>,
      statusText |-> statusText,
      currentFaceGuidance |-> currentFaceGuidance ]

updateFaceStatus_neverInterrupts(st, isCentered, dateNow, speakOk) ==
    IF isCentered
    THEN speakMessage([st EXCEPT !.statusText = StatusCentered],
                      CenteredMessage, FALSE, dateNow, speakOk)
    ELSE speakMessage([st EXCEPT !.statusText = StatusNotCentered],
                      IF st.currentFaceGuidance # ""
                      THEN st.currentFaceGuidance
                      ELSE DefaultNotCenteredMessage,
                      FALSE, dateNow, speakOk)

updateFaceStatus(st, isCentered, dateNow, speakOk) ==
    IF isCentered
    THEN speakMessage([st EXCEPT !.statusText = StatusCentered],
                      CenteredMessage, TRUE, dateNow, speakOk)
    ELSE speakMessage([st EXCEPT !.statusText = StatusNotCentered],
                      IF st.currentFaceGuidance # ""
                      THEN st.currentFaceGuidance
                      ELSE DefaultNotCenteredMessage,
                      FALSE, dateNow, speakOk)

\* The body of faces.forEach for one face.
DrawFace(st, face, w, h, dateNow, speakOk) ==
    IF boundingBox
    THEN updateFaceStatus(
            [st EXCEPT !.currentFaceGuidance = getFacePositionGuidance(face, w, h)],
            isFaceCentered(face, w, h), dateNow, speakOk)
    ELSE st

RECURSIVE DrawFaces(_, _, _, _, _, _)
DrawFaces(st, faces, w, h, dateNow, speakOks) ==
    IF faces = <<>> THEN st
    ELSE DrawFaces(DrawFace(st, Head(faces), w, h, dateNow, Head(speakOks)),
                   Tail(faces), w, h, dateNow, Tail(speakOks))

drawResults(st, faces, w, h, dateNow, speakOks) ==
    DrawFaces(IF Len(faces) = 0 THEN [st EXCEPT !.statusText = StatusNoFace] ELSE st,
              faces, w, h, dateNow, speakOks)

SetFace(st) ==
    /\ lastAnnouncedStatus' = st.lastAnnouncedStatus
    /\ lastAnnouncementTime' = st.lastAnnouncementTime
    /\ lastSpoken' = SpokenAfter(lastSpoken, st.fx, DateNow)
    /\ statusText' = st.statusText
    /\ currentFaceGuidance' = st.currentFaceGuidance

(***************************************************************************)
(* Render loop.  A task is one run of renderPrediction: a frame requested  *)
(* with requestAnimationFrame (pc "raf"; cur: its id is the value of       *)
(* rafId), or a run suspended at an await: of setBackendAndEnvFlags        *)
(* ("backend"), of createDetector ("create") or of estimateFaces           *)
(* ("estimate"; det: the detector the call was made on, which is the one   *)
(* the variable detector holds ("current"), or one the variable held       *)
(* before, disposed ("disposed") or not ("replaced")).                     *)
(***************************************************************************)
Task(pc, cur, det) == [pc |-> pc, cur |-> cur, det |-> det]
CurrentFrame == Task("raf", TRUE, "")
StaleFrame == Task("raf", FALSE, "")
Estimate(det) == Task("estimate", FALSE, det)

One(t) == SetToBag({t})
Count(bag, t) == IF BagIn(t, bag) THEN bag[t] ELSE 0
RECURSIVE Copies(_, _)
Copies(t, n) == IF n = 0 THEN EmptyBag ELSE One(t) (+) Copies(t, n - 1)
Relabel(bag, from, to) ==
    (bag (-) Copies(from, Count(bag, from))) (+) Copies(to, Count(bag, from))

\* rafId = requestAnimationFrame(renderPrediction): the frame requested
\* before is no longer the one rafId names.
requestAnimationFrame(bag) == Relabel(bag, CurrentFrame, StaleFrame) (+) One(CurrentFrame)

\* window.cancelAnimationFrame(rafId): without effect when the frame rafId
\* names has already run.
cancelAnimationFrame(bag) == bag (-) One(CurrentFrame)

\* detector.dispose()
Dispose(det) == IF det = "null" THEN "null" ELSE "disposed"

\* The variable detector is assigned: the calls in flight on the detector
\* it held are calls on a former detector.
Reassign(bag, det) ==
    Relabel(bag, Estimate("current"),
            Estimate(IF det = "disposed" THEN "disposed" ELSE "replaced"))

\* renderPrediction after checkGuiUpdate: renderResult starts an inference
\* when there is a detector and no switch is under way; if not, it draws the
\* frame and the next frame is requested.
AfterGuiUpdate(bag, det, modelChanged) ==
    IF ~modelChanged /\ det # "null"
    THEN bag (+) One(Estimate("current"))
    ELSE requestAnimationFrame(bag)

(***************************************************************************)
(* The application model: its frame, and the faces the detector reports    *)
(* in it, one at the centre and one at the left edge.                      *)
(***************************************************************************)
AppWidth == 2 * 10
AppHeight == 2 * 5
FaceAtCentre == [box |-> [xMin |-> 6, yMin |-> 3, xMax |-> 14, yMax |-> 7]]
FaceAtLeft == [box |-> [xMin |-> 0, yMin |-> 3, xMax |-> 8, yMax |-> 7]]
AppFrames == { <<>>, <<FaceAtCentre>>, <<FaceAtLeft>>, <<FaceAtCentre, FaceAtLeft>> }

\* Bounds: render loops alive at once, pending save timers, clock ticks.
MaxLoops == 2
MaxPending == 2
MaxAppTicks == 2

InitApp(dev) ==
    /\ isDev = dev
    /\ saves = EmptyBag
    /\ statusText = StatusWaiting
    /\ currentFaceGuidance = ""
    /\ detector = "live"
    /\ isModelChanged = FALSE
    /\ isBackendChanged = FALSE
    /\ tasks = One(Estimate("current"))   \* app() ends in renderPrediction()
    /\ photoDrawn = FALSE
    /\ capturedDisplay = FALSE
    /\ downloadDisabled = TRUE
    /\ takeAndDownloadVisible = TRUE
    /\ startOverVisible = FALSE
    /\ timers = EmptyBag

Did(op, input, fx) == last' = [op |-> op, input |-> input, fx |-> fx]

Rejected == Effect("renderPrediction", "rejected", "TypeError", FALSE)

(***************************************************************************)
(* The render loop's steps.                                                *)
(***************************************************************************)
\* A requested frame runs renderPrediction up to its first await of a call
\* that takes time: checkGuiUpdate starts a switch when one is pending.
RafFires ==
    \E t \in BagToSet(tasks) :
        /\ t.pc = "raf"
        /\ LET rest == tasks (-) One(t) IN
           IF isModelChanged \/ isBackendChanged
           THEN /\ isModelChanged' = TRUE
                /\ tasks' = cancelAnimationFrame(rest)
                        (+) One(Task(IF isBackendChanged THEN "backend" ELSE "create",
                                     FALSE, ""))
                /\ detector' = Dispose(detector)
                /\ Did("renderPrediction", [switch |-> TRUE],
                       IF detector # "null"
                       THEN <<Effect("checkGuiUpdate", "dispose", detector, TRUE)>>
                       ELSE <<>>)
                /\ UNCHANGED isBackendChanged
           ELSE /\ tasks' = AfterGuiUpdate(rest, detector, isModelChanged)
                /\ Did("renderPrediction", [switch |-> FALSE], <<>>)
                /\ UNCHANGED detectorVars
        /\ UNCHANGED <<geomVars, speechVars, envVars, faceVars, photoVars, now>>

\* The alert of resetBackend when the webgpu backend is not registered.
WebgpuAlert ==
    "webgpu backend is not registered. Your browser may not support WebGPU yet. To test this backend, please use a supported browser, e.g. Chrome canary with --enable-unsafe-webgpu flag"

\* The effects of a setBackendAndEnvFlags call awaited by the function by:
\* it returns (ok), after the alert of resetBackend when webgpu is asked for
\* and not registered (unregistered), or it throws, and by, which catches
\* nothing, ends there with a rejected promise.
BackendEffects(by, ok, unregistered) ==
    IF ~ok THEN <<Effect(by, "rejected", "Error", FALSE)>>
    ELSE IF unregistered THEN <<Effect("resetBackend", "alert", WebgpuAlert, TRUE)>>
    ELSE <<>>

\* setBackendAndEnvFlags returns, or throws: checkGuiUpdate does not catch
\* it and the run of renderPrediction ends there.
BackendDone ==
    \E t \in BagToSet(tasks), ok \in BOOLEAN, unregistered \in BOOLEAN :
        /\ t.pc = "backend"
        /\ unregistered => ok
        /\ tasks' = IF ok
                    THEN (tasks (-) One(t)) (+) One(Task("create", FALSE, ""))
                    ELSE tasks (-) One(t)
        /\ Did("setBackendAndEnvFlags", [ok |-> ok, unregistered |-> unregistered],
               BackendEffects("renderPrediction", ok, unregistered))
        /\ UNCHANGED <<geomVars, speechVars, envVars, faceVars, detectorVars, photoVars, now>>

\* createDetector returns a new detector, or throws.
CreateDone ==
    \E t \in BagToSet(tasks), ok \in BOOLEAN :
        /\ t.pc = "create"
        /\ detector' = IF ok THEN "live" ELSE "null"
        /\ isBackendChanged' = FALSE
        /\ isModelChanged' = FALSE
        /\ tasks' = AfterGuiUpdate(Reassign(tasks (-) One(t), detector), detector', FALSE)
        /\ Did("createDetector", [ok |-> ok],
               IF ok THEN <<>>
               ELSE <<Effect("checkGuiUpdate", "alert", "Error", TRUE)>>)
        /\ UNCHANGED <<geomVars, speechVars, envVars, faceVars, photoVars, now>>

\* endEstimateFaceStats: in production stats is undefined, and when the panel
\* is due stats.customFpsPanel throws a TypeError before lastPanelUpdate is
\* assigned, so that lastPanelUpdate keeps its first value.  In development
\* the panel is updated, which changes nothing the model holds.
lastPanelUpdate == 0
PanelDue == now - lastPanelUpdate >= PanelUpdateMilliseconds
StatsThrows == PanelDue /\ ~isDev

\* estimateFaces throws.  The catch block disposes the detector the variable
\* holds now; when it holds null, detector.dispose() throws a TypeError.
EstimateThrows ==
    \E t \in BagToSet(tasks) :
        /\ t.pc = "estimate"
        /\ LET rest == tasks (-) One(t) IN
           IF detector = "null"
           THEN /\ tasks' = rest
                /\ Did("renderResult", [faces |-> <<>>, threw |-> TRUE, wasSpeaking |-> FALSE],
                       <<Rejected>>)
                /\ UNCHANGED detectorVars
           ELSE /\ detector' = "null"
                /\ tasks' = LET others == Reassign(rest, "disposed") IN
                            IF StatsThrows THEN others ELSE requestAnimationFrame(others)
                /\ Did("renderResult", [faces |-> <<>>, threw |-> TRUE, wasSpeaking |-> FALSE],
                       << Effect("renderResult", "dispose", detector, TRUE),
                          Effect("renderResult", "alert", "Error", TRUE) >>
                       \o IF StatsThrows THEN <<Rejected>> ELSE <<>>)
                /\ UNCHANGED <<isModelChanged, isBackendChanged>>
        /\ UNCHANGED <<geomVars, speechVars, envVars, faceVars, photoVars, now>>

\* estimateFaces returns the faces of the frame.  wasSpeaking is read only
\* when the frame is drawn and speech is available.  outcomes are the
\* outcomes of speechSynthesis.speak the step draws from, one for each face:
\* the call returns (TRUE) or throws (FALSE).
EstimateDone(outcomes) ==
    \E t \in BagToSet(tasks), faces \in AppFrames, wasSpeaking \in BOOLEAN :
      \E speakOks \in [1..Len(faces) -> outcomes] :
        /\ t.pc = "estimate"
        /\ LET rest == tasks (-) One(t)
               drawn == Len(faces) > 0 /\ ~isModelChanged /\ ~StatsThrows
               st == IF drawn
                     THEN drawResults(FaceState(wasSpeaking), faces, canvasWidth,
                                      canvasHeight, DateNow, speakOks)
                     ELSE FaceState(wasSpeaking)
           IN  /\ wasSpeaking => drawn /\ speechAvailable
               /\ tasks' = IF StatsThrows THEN rest ELSE requestAnimationFrame(rest)
               /\ SetFace(st)
               /\ Did("renderResult",
                      [faces |-> faces, threw |-> FALSE, wasSpeaking |-> wasSpeaking],
                      st.fx \o IF StatsThrows THEN <<Rejected>> ELSE <<>>)
        /\ UNCHANGED <<geomVars, speechAvailable, envVars, detectorVars, photoVars, now>>

\* The frame step of the application: speechSynthesis.speak returns.
EstimateReturns == EstimateDone({TRUE})

\* The frame step when speechSynthesis.speak may also throw.
EstimateSpeaks == EstimateDone(BOOLEAN)

(***************************************************************************)
(* SpecGeom: the pure functions applied to a face box of a frame.  Init     *)
(* draws the frame size and the face; Evaluate applies the functions.       *)
(***************************************************************************)
InitGeom ==
    \E size \in FrameSizes :
        /\ canvasWidth = size[1]
        /\ canvasHeight = size[2]
        /\ \E box \in FaceBoxes(size[1], size[2]) :
               probe = [evaluated |-> FALSE, face |-> [box |-> box]]
        /\ speechAvailable = TRUE
        /\ lastAnnouncedStatus = ""
        /\ lastAnnouncementTime = 0
        /\ lastSpoken = NotSpoken
        /\ now = 0
        /\ last = NoOp
        /\ InitApp(TRUE)

Evaluate ==
    /\ ~probe.evaluated
    /\ probe' = [ evaluated |-> TRUE,
                  face |-> probe.face,
                  centered |-> isFaceCentered(probe.face, canvasWidth, canvasHeight),
                  clauses |-> GuidanceClauses(probe.face, canvasWidth, canvasHeight),
                  guidance |-> getFacePositionGuidance(probe.face, canvasWidth, canvasHeight) ]
    /\ last' = [op |-> "Evaluate", input |-> NoInput, fx |-> <<>>]
    /\ UNCHANGED <<canvasWidth, canvasHeight, speechVars, appVars, now>>

NextGeom == Evaluate

SpecGeom == InitGeom /\ [][NextGeom]_vars


(***************************************************************************)
(* SpecThrottle: speakMessage called with any message and interrupt flag,  *)
(* at any time.                                                            *)
(***************************************************************************)
MaxWindows == 2
\* The clock moves by a throttle window, one millisecond less or one more.
MaxTime == MaxWindows * (ThrottleMs + 1)
ThrottleSteps == {ThrottleMs - 1, ThrottleMs, ThrottleMs + 1}
ThrottleMessages == {CenteredMessage, AlmostCenteredMessage, "Move left."}

InitSpeech ==
    /\ speechAvailable \in BOOLEAN
    /\ lastAnnouncedStatus = ""
    /\ lastAnnouncementTime = 0
    /\ lastSpoken = NotSpoken
    /\ now = 0
    /\ last = NoOp

InitThrottle ==
    /\ canvasWidth = 20
    /\ canvasHeight = 10
    /\ probe = NoProbe
    /\ InitSpeech
    /\ InitApp(TRUE)

SetSpeech(st) ==
    /\ lastAnnouncedStatus' = st.lastAnnouncedStatus
    /\ lastAnnouncementTime' = st.lastAnnouncementTime
    /\ lastSpoken' = SpokenAfter(lastSpoken, st.fx, DateNow)

CallSpeakMessage ==
    \E message \in ThrottleMessages, interrupt \in BOOLEAN, speakOk \in BOOLEAN,
       wasSpeaking \in BOOLEAN :
        LET st == speakMessage(SpeechState(wasSpeaking), message, interrupt, DateNow, speakOk) IN
        /\ SetSpeech(st)
        /\ last' = [ op |-> "speakMessage",
                     input |-> [ message |-> message, interrupt |-> interrupt,
                                 at |-> DateNow, before |-> lastSpoken,
                                 wasSpeaking |-> wasSpeaking ],
                     fx |-> st.fx ]
        /\ UNCHANGED <<geomVars, speechAvailable, appVars, now>>

Advance(d, max) ==
    /\ now + d <= max
    /\ now' = now + d
    /\ last' = [op |-> "Advance", input |-> NoInput, fx |-> <<>>]
    /\ UNCHANGED <<geomVars, speechVars, appVars>>

TickThrottle == \E d \in ThrottleSteps : Advance(d, MaxTime)

NextThrottle ==
    \/ CallSpeakMessage
    \/ TickThrottle

SpecThrottle == InitThrottle /\ [][NextThrottle]_vars

(***************************************************************************)
(* Capture, save and start over: the click handlers of index.js.  Each     *)
(* handler threads the record st of the speech state and of its effects.   *)
(* The handlers speak through window.speechSynthesis directly, not through *)
(* speakMessage, and leave the throttle's record alone.                    *)
(***************************************************************************)
CenterFirstSpoken ==
    "Please center your face before taking a photo. Use the Announce Position button for guidance."
CenterFirstAlert == "Please center your face before taking a photo."
CapturedSpoken ==
    "Photo captured successfully. You can now download it using the Download Photo button."
CapturedAlert == "Photo captured successfully!"
TakenSpoken == "Photo captured and downloading automatically."
TakenAlert == "Photo captured and downloaded successfully!"
SavingToGallery == "Photo captured. Saving to gallery."
DisabledSpoken ==
    "Photo has been taken and downloaded. Press the Take Another Selfie button to take a new photo."
RestartedSpoken == "App restarted. You can now take a new photo."

\* text.includes('Centered') for the texts the status element can hold.
StatusTexts == {StatusWaiting, StatusCentered, StatusNotCentered, StatusNoFace}
IncludesCentered == [text \in StatusTexts |-> Includes(text, "Centered")]

StatusSaysCentered_always == TRUE

\* statusElement.textContent.includes('Centered')
StatusSaysCentered == IncludesCentered[statusText]

TakeStill_withoutCue(st, by, audioAvailable) ==
    Emit(Emit(Emit(st, by, "drawImage", "video", TRUE),
              by, "show", "captured-photo", TRUE),
         by, "enable", "download-photo", TRUE)

\* The current video frame drawn mirrored into photo-canvas and shown in
\* captured-photo, the download button enabled, then playShutterSound, which
\* returns at once when the browser has no AudioContext (audioAvailable is
\* FALSE).
TakeStill(st, by, audioAvailable) ==
    LET s1 == Emit(Emit(Emit(st, by, "drawImage", "video", TRUE),
                        by, "show", "captured-photo", TRUE),
                   by, "enable", "download-photo", TRUE)
    IN  IF audioAvailable THEN Emit(s1, "playShutterSound", "oscillator", "", TRUE) ELSE s1

\* The branch taken when the status does not say Centered.
RefuseCapture(st, by) ==
    IF speechAvailable
    THEN Speak(Cancel(st, by), by, CenterFirstSpoken)
    ELSE Emit(st, by, "alert", CenterFirstAlert, TRUE)

savePhoto(st, by) == Emit(st, by, "savePhoto", "photo-canvas", TRUE)

\* The speech of disableAppAndShowStartOver; its changes of the page are in
\* DisableApp.
disableSpeech(st) ==
    IF speechAvailable THEN Speak(st, "disableAppAndShowStartOver", DisabledSpoken) ELSE st

DisableApp ==
    /\ tasks' = cancelAnimationFrame(tasks)
    /\ takeAndDownloadVisible' = FALSE
    /\ startOverVisible' = TRUE

\* setTimeout(callback, delay): a timer is the time left before its callback
\* runs.
Timer(delay) == [left |-> delay]
Elapse(bag, d) ==
    LET due == Timer(0)
        pending == Timer(SaveDelayMs)
    IN  IF d >= SaveDelayMs THEN Relabel(bag, pending, due) ELSE bag

\* audioAvailable is read only when a still is taken.
capturePhoto ==
  \E audioAvailable \in BOOLEAN :
    /\ isDev
    /\ audioAvailable => StatusSaysCentered
    /\ LET by == "capturePhoto"
           st == IF StatusSaysCentered
                 THEN LET s1 == TakeStill(SpeechState(FALSE), by, audioAvailable)
                      IN  IF speechAvailable
                          THEN Speak(Cancel(s1, by), by, CapturedSpoken)
                          ELSE Emit(s1, by, "alert", CapturedAlert, TRUE)
                 ELSE RefuseCapture(SpeechState(FALSE), by)
       IN  /\ Did(by, [centered |-> StatusSaysCentered, audio |-> audioAvailable, mobile |-> FALSE],
                  st.fx)
           /\ IF StatusSaysCentered
              THEN /\ photoDrawn' = TRUE
                   /\ capturedDisplay' = TRUE
                   /\ downloadDisabled' = FALSE
              ELSE UNCHANGED <<photoDrawn, capturedDisplay, downloadDisabled>>
    /\ UNCHANGED <<geomVars, speechVars, envVars, faceVars, detectorVars, loopVars,
                   takeAndDownloadVisible, startOverVisible, timers, now>>

\* isMobile is what the test of navigator.userAgent gives; like
\* audioAvailable it is read only when a still is taken.
takeAndDownloadPhoto ==
  \E audioAvailable \in BOOLEAN, isMobile \in BOOLEAN :
    /\ takeAndDownloadVisible
    /\ audioAvailable => StatusSaysCentered
    /\ isMobile => StatusSaysCentered
    /\ LET by == "takeAndDownloadPhoto"
           still == TakeStill(SpeechState(FALSE), by, audioAvailable)
       IN  IF ~StatusSaysCentered
           THEN /\ Did(by, [centered |-> FALSE, audio |-> FALSE, mobile |-> FALSE],
                       RefuseCapture(SpeechState(FALSE), by).fx)
                /\ UNCHANGED <<tasks, photoVars>>
           ELSE /\ photoDrawn' = TRUE
                /\ capturedDisplay' = TRUE
                /\ downloadDisabled' = FALSE
                /\ IF speechAvailable
                   THEN /\ BagCardinality(timers) < MaxPending
                        /\ Did(by, [centered |-> TRUE, audio |-> audioAvailable, mobile |-> isMobile],
                               Append(Speak(Cancel(still, by), by,
                                            IF isMobile THEN SavingToGallery ELSE TakenSpoken).fx,
                                      Effect(by, "setTimeout", "save", TRUE)))
                        /\ timers' = timers (+) One(Timer(SaveDelayMs))
                        /\ UNCHANGED <<tasks, takeAndDownloadVisible, startOverVisible>>
                   ELSE /\ Did(by, [centered |-> TRUE, audio |-> audioAvailable, mobile |-> isMobile],
                               disableSpeech(Emit(savePhoto(still, by),
                                                  by, "alert",
                                                  IF isMobile THEN SavingToGallery ELSE TakenAlert,
                                                  TRUE)).fx)
                        /\ DisableApp
                        /\ UNCHANGED timers
    /\ UNCHANGED <<geomVars, speechVars, envVars, faceVars, detectorVars, now>>

\* The callback takeAndDownloadPhoto set with setTimeout(..., 1500).
SaveTimerFires ==
    \E tm \in BagToSet(timers) :
        /\ tm.left = 0
        /\ timers' = timers (-) One(tm)
        /\ Did("saveTimer", NoInput,
               disableSpeech(savePhoto(SpeechState(FALSE), "takeAndDownloadPhoto")).fx)
        /\ DisableApp
        /\ UNCHANGED <<geomVars, speechVars, envVars, faceVars, detectorVars,
                       photoDrawn, capturedDisplay, downloadDisabled, now>>

startOver ==
    /\ startOverVisible
    /\ BagCardinality(tasks) < MaxLoops
    /\ capturedDisplay' = FALSE
    /\ takeAndDownloadVisible' = TRUE
    /\ startOverVisible' = FALSE
    /\ tasks' = requestAnimationFrame(tasks)
    /\ Did("startOver", [displayed |-> capturedDisplay],
           IF speechAvailable
           THEN Speak(SpeechState(FALSE), "startOver", RestartedSpoken).fx
           ELSE <<>>)
    /\ UNCHANGED <<geomVars, speechVars, envVars, faceVars, detectorVars,
                   photoDrawn, downloadDisabled, timers, now>>

downloadPhoto_whileDisabled ==
    /\ isDev
    /\ Did("downloadPhoto", NoInput, savePhoto(SpeechState(FALSE), "downloadPhoto").fx)
    /\ UNCHANGED <<geomVars, speechVars, appVars, now>>

\* The click handler of download-photo, a button of development mode; a
\* disabled button receives no click.
downloadPhoto ==
    /\ isDev
    /\ ~downloadDisabled
    /\ Did("downloadPhoto", NoInput, savePhoto(SpeechState(FALSE), "downloadPhoto").fx)
    /\ UNCHANGED <<geomVars, speechVars, appVars, now>>

\* String.prototype.replace(pattern, by) with a string pattern: the first
\* occurrence is replaced.
Replace(text, pattern, by) ==
    IF ~Includes(text, pattern) THEN text
    ELSE LET i == CHOOSE k \in 1..(Len(text) - Len(pattern) + 1) :
                    /\ SubSeq(text, k, k + Len(pattern) - 1) = pattern
                    /\ \A j \in 1..(k - 1) : SubSeq(text, j, j + Len(pattern) - 1) # pattern
         IN  SubSeq(text, 1, i - 1) \o by \o SubSeq(text, i + Len(pattern), Len(text))

\* String.prototype.trim() for texts whose only white space is the space.
RECURSIVE Trim(_)
Trim(text) ==
    IF text = "" THEN ""
    ELSE IF SubSeq(text, 1, 1) = " " THEN Trim(SubSeq(text, 2, Len(text)))
    ELSE IF SubSeq(text, Len(text), Len(text)) = " "
         THEN Trim(SubSeq(text, 1, Len(text) - 1))
         ELSE text

\* The marks updateFaceStatus appends to the status text.
CheckMark == "[check]"
CrossMark == "[cross]"
TakePhotoHint ==
    ". You can now take a photo by pressing the Take Photo button in the middle of the screen."

\* statusElement.textContent.replace(check, '').replace(cross, '').trim(),
\* and whether it includes 'Centered', for the texts the element can hold.
StatusWithoutMark ==
    [text \in StatusTexts |-> Trim(Replace(Replace(text, CheckMark, ""), CrossMark, ""))]
AnnouncedSaysCentered ==
    [text \in StatusTexts |-> Includes(StatusWithoutMark[text], "Centered")]

\* The message of the announce-position button.
PositionMessage(status, guidance) ==
    LET message == IF guidance # ""
                   THEN StatusWithoutMark[status] \o ". " \o guidance
                   ELSE StatusWithoutMark[status]
    IN  IF AnnouncedSaysCentered[status] THEN message \o TakePhotoHint ELSE message

\* The click handler of announce-position, a button of development mode.
announcePosition ==
    /\ isDev
    /\ LET by == "announcePosition" IN
       Did(by, NoInput,
           IF speechAvailable
           THEN Speak(Cancel(SpeechState(FALSE), by), by,
                      PositionMessage(statusText, currentFaceGuidance)).fx
           ELSE <<>>)
    /\ UNCHANGED <<geomVars, speechVars, appVars, now>>

\* The developer's panel asks for another model or another backend.
GuiChange ==
    /\ isDev
    /\ \E backend \in BOOLEAN :
          /\ IF backend
             THEN ~isBackendChanged /\ isBackendChanged' = TRUE /\ UNCHANGED isModelChanged
             ELSE ~isModelChanged /\ isModelChanged' = TRUE /\ UNCHANGED isBackendChanged
          /\ Did("guiChange", [backend |-> backend], <<>>)
    /\ UNCHANGED <<geomVars, speechVars, envVars, faceVars, detector,
                   loopVars, photoVars, now>>

\* Time passes: the clock advances and the pending timers come due.
TickApp ==
    /\ now + SaveDelayMs <= MaxAppTicks * SaveDelayMs
    /\ now' = now + SaveDelayMs
    /\ timers' = Elapse(timers, SaveDelayMs)
    /\ Did("Advance", NoInput, <<>>)
    /\ UNCHANGED <<geomVars, speechVars, envVars, faceVars, detectorVars, loopVars,
                   photoDrawn, capturedDisplay, downloadDisabled, takeAndDownloadVisible,
                   startOverVisible>>

(***************************************************************************)
(* SpecSave: a save followed from its start to its end.  savePhoto of       *)
(* takeAndDownloadPhoto and the body of downloadPhoto are the same code: on *)
(* a mobile platform with navigator.canShare or navigator.share the image   *)
(* is fetched and made a File, then shared; if not, fallbackDownload clicks *)
(* a link.  A pending save is the promise chain at its fetch or at its      *)
(* navigator.share call, with what its closure holds: the filename and the  *)
(* capabilities of navigator.                                               *)
(***************************************************************************)
SaveCallers == {"downloadPhoto", "takeAndDownloadPhoto"}

\* Values of 'selfie_' + new Date().toISOString().replace(/[:.]/g, '-') + '.png'.
FileNames == {"selfie_2026-01-01T00-00-00-000Z.png", "selfie_2026-01-01T00-00-01-500Z.png"}

\* Bound: the saves pending at once.
MaxSaves == 2

Save(pc, filename, hasCanShare, hasShare) ==
    [pc |-> pc, filename |-> filename, hasCanShare |-> hasCanShare, hasShare |-> hasShare]

fallbackDownload(filename) == Effect("fallbackDownload", "click", filename, TRUE)

\* savePhoto(imageUrl, filename), or downloadPhoto, up to its return.  The
\* capabilities of navigator are read only on a mobile platform.
StartSave ==
    \E by \in SaveCallers, filename \in FileNames,
       isMobile \in BOOLEAN, hasCanShare \in BOOLEAN, hasShare \in BOOLEAN :
        LET sharing == isMobile /\ (hasCanShare \/ hasShare) IN
        /\ ~isMobile => ~hasCanShare /\ ~hasShare
        /\ sharing => BagCardinality(saves) < MaxSaves
        /\ saves' = IF sharing
                    THEN saves (+) One(Save("fetch", filename, hasCanShare, hasShare))
                    ELSE saves
        /\ Did("savePhoto",
               [by |-> by, filename |-> filename, mobile |-> isMobile,
                hasCanShare |-> hasCanShare, hasShare |-> hasShare],
               IF sharing
               THEN <<Effect(by, "fetch", filename, TRUE)>>
               ELSE <<fallbackDownload(filename)>>)
        /\ UNCHANGED <<geomVars, speechVars, isDev, faceVars, detectorVars, loopVars,
                       photoVars, now>>

\* fetch(imageUrl).then(res => res.blob()).then(blob => ...) settles.  When
\* the fetch, the blob or the File constructor fails (made is FALSE) the
\* chain is rejected and nothing handles it.  canShareFiles is what
\* navigator.canShare({files}) returns, read only when navigator.canShare
\* exists.
FetchSettles ==
    \E s \in BagToSet(saves), made \in BOOLEAN, canShareFiles \in BOOLEAN :
        /\ s.pc = "fetch"
        /\ canShareFiles => made /\ s.hasCanShare
        /\ LET rest == saves (-) One(s)
               shares == made /\ ((s.hasCanShare /\ canShareFiles) \/ s.hasShare)
           IN  /\ saves' = IF shares
                           THEN rest (+) One(Save("share", s.filename, s.hasCanShare, s.hasShare))
                           ELSE rest
               /\ Did("fetchSettles",
                      [filename |-> s.filename, made |-> made, canShareFiles |-> canShareFiles],
                      IF ~made
                      THEN <<Effect("savePhoto", "rejected", s.filename, FALSE)>>
                      ELSE IF s.hasCanShare /\ canShareFiles
                      THEN <<Effect("savePhoto", "share", "files", TRUE)>>
                      ELSE IF s.hasShare
                      THEN <<Effect("savePhoto", "share", "url", TRUE)>>
                      ELSE <<fallbackDownload(s.filename)>>)
        /\ UNCHANGED <<geomVars, speechVars, isDev, faceVars, detectorVars, loopVars,
                       photoVars, now>>

\* The promise of navigator.share settles: fulfilled (shared), or rejected,
\* which the catch handler answers with fallbackDownload.
ShareSettles ==
    \E s \in BagToSet(saves), shared \in BOOLEAN :
        /\ s.pc = "share"
        /\ saves' = saves (-) One(s)
        /\ Did("shareSettles", [filename |-> s.filename, shared |-> shared],
               IF shared
               THEN <<Effect("savePhoto", "shared", s.filename, TRUE)>>
               ELSE <<fallbackDownload(s.filename)>>)
        /\ UNCHANGED <<geomVars, speechVars, isDev, faceVars, detectorVars, loopVars,
                       photoVars, now>>

InitSave ==
    /\ canvasWidth = AppWidth
    /\ canvasHeight = AppHeight
    /\ probe = NoProbe
    /\ InitSpeech
    /\ InitApp(TRUE)

NextSave ==
    \/ StartSave
    \/ FetchSettles
    \/ ShareSettles

SpecSave == InitSave /\ [][NextSave]_vars

(***************************************************************************)
(* Spec: the application.                                                  *)
(***************************************************************************)
Init ==
    /\ canvasWidth = AppWidth
    /\ canvasHeight = AppHeight
    /\ probe = NoProbe
    /\ InitSpeech
    /\ \E dev \in BOOLEAN : InitApp(dev)

Next ==
    \/ RafFires
    \/ BackendDone
    \/ CreateDone
    \/ EstimateThrows
    \/ EstimateReturns
    \/ capturePhoto
    \/ takeAndDownloadPhoto
    \/ SaveTimerFires
    \/ startOver
    \/ downloadPhoto
    \/ announcePosition
    \/ GuiChange
    \/ TickApp

Spec == Init /\ [][Next]_vars

(***************************************************************************)
(* SpecUser: the application driven by its user alone; the developer's     *)
(* option panel is left untouched, so no model or backend switch starts.   *)
(***************************************************************************)
NextUser ==
    \/ RafFires
    \/ EstimateThrows
    \/ EstimateReturns
    \/ capturePhoto
    \/ takeAndDownloadPhoto
    \/ SaveTimerFires
    \/ startOver
    \/ downloadPhoto
    \/ announcePosition
    \/ TickApp

SpecUser == Init /\ [][NextUser]_vars

(***************************************************************************)
(* SpecSpeech: the speaking paths of the application in a browser whose    *)
(* speechSynthesis.speak may throw: the frames of the render loop, take    *)
(* and download with its delayed save, start over and announce position.   *)
(* The detector does not fault here.                                       *)
(***************************************************************************)
NextSpeech ==
    \/ RafFires
    \/ EstimateSpeaks
    \/ takeAndDownloadPhoto
    \/ SaveTimerFires
    \/ startOver
    \/ announcePosition
    \/ TickApp

SpecSpeech == Init /\ [][NextSpeech]_vars

(***************************************************************************)
(* SpecStart: the application from the start of app().  app awaits         *)
(* setBackendAndEnvFlags ("appBackend"), then createDetector ("appCreate"),*)
(* with the variable detector still undefined; it attaches the event       *)
(* listeners and calls renderPrediction only after both have returned.     *)
(* The specification follows the start, the render loop and the option     *)
(* panel's switches; the buttons of the page are left alone.               *)
(***************************************************************************)
\* app's await of setBackendAndEnvFlags: nothing catches what it throws.
AppBackendDone ==
    \E t \in BagToSet(tasks), ok \in BOOLEAN, unregistered \in BOOLEAN :
        /\ t.pc = "appBackend"
        /\ unregistered => ok
        /\ tasks' = IF ok
                    THEN (tasks (-) One(t)) (+) One(Task("appCreate", FALSE, ""))
                    ELSE tasks (-) One(t)
        /\ Did("app", [step |-> "setBackendAndEnvFlags", ok |-> ok],
               BackendEffects("app", ok, unregistered))
        /\ UNCHANGED <<geomVars, speechVars, envVars, faceVars, detectorVars, photoVars, now>>

\* app's await of createDetector, which nothing catches either.  When it
\* returns, app runs to its end, the call renderPrediction(): a frame that
\* rafId does not name.
AppCreateDone ==
    \E t \in BagToSet(tasks), ok \in BOOLEAN :
        /\ t.pc = "appCreate"
        /\ detector' = IF ok THEN "live" ELSE detector
        /\ tasks' = IF ok
                    THEN (tasks (-) One(t)) (+) One(StaleFrame)
                    ELSE tasks (-) One(t)
        /\ Did("app", [step |-> "createDetector", ok |-> ok],
               IF ok THEN <<>> ELSE <<Effect("app", "rejected", "Error", FALSE)>>)
        /\ UNCHANGED <<geomVars, speechVars, envVars, faceVars, isModelChanged,
                       isBackendChanged, photoVars, now>>

InitStart ==
    /\ canvasWidth = AppWidth
    /\ canvasHeight = AppHeight
    /\ probe = NoProbe
    /\ InitSpeech
    /\ isDev \in BOOLEAN
    /\ saves = EmptyBag
    /\ statusText = StatusWaiting
    /\ currentFaceGuidance = ""
    /\ detector = "undefined"
    /\ isModelChanged = FALSE
    /\ isBackendChanged = FALSE
    /\ tasks = One(Task("appBackend", FALSE, ""))
    /\ photoDrawn = FALSE
    /\ capturedDisplay = FALSE
    /\ downloadDisabled = TRUE
    /\ takeAndDownloadVisible = TRUE
    /\ startOverVisible = FALSE
    /\ timers = EmptyBag

NextStart ==
    \/ AppBackendDone
    \/ AppCreateDone
    \/ RafFires
    \/ BackendDone
    \/ CreateDone
    \/ EstimateThrows
    \/ EstimateReturns
    \/ GuiChange
    \/ TickApp

SpecStart == InitStart /\ [][NextStart]_vars

(***************************************************************************)
(* Properties of the geometry evaluator and the guidance composer, stated  *)
(* on the midpoint of the box and on the returned values.                  *)
(***************************************************************************)
\* Twice the signed offset of the box's midpoint from the frame centre.
OffsetX2(p) == (p.face.box.xMin + p.face.box.xMax) - canvasWidth
OffsetY2(p) == (p.face.box.yMin + p.face.box.yMax) - canvasHeight

\* C1: isFaceCentered returns true exactly when the midpoint of the box is
\* within 0.15 of the width of the frame centre horizontally and within 0.15
\* of the height vertically, both bounds inclusive, each axis on its own.
C1_CenteredIffWithinBothBounds ==
    probe.evaluated =>
        ( probe.centered <=>
            ( /\ 100 * Abs(OffsetX2(probe)) <= 30 * canvasWidth
              /\ 100 * Abs(OffsetY2(probe)) <= 30 * canvasHeight ) )

\* A face exactly on the horizontal bound and inside the vertical one.
C1_Witness ==
    /\ probe.evaluated
    /\ 100 * Abs(OffsetX2(probe)) = 30 * canvasWidth
    /\ 100 * Abs(OffsetY2(probe)) < 30 * canvasHeight
    /\ probe.centered

\* C10: the returned guidance holds "Move right" exactly when the offset is
\* below -0.1 of the width, "Move left" exactly when it is above 0.1 of the
\* width, "Move down" exactly when the vertical offset is below -0.1 of the
\* height and "Move up" exactly when it is above 0.1 of the height.
C10_PositionalClauses ==
    probe.evaluated =>
        /\ Includes(probe.guidance, "Move right")
              <=> 100 * OffsetX2(probe) < -(20 * canvasWidth)
        /\ Includes(probe.guidance, "Move left")
              <=> 100 * OffsetX2(probe) > 20 * canvasWidth
        /\ Includes(probe.guidance, "Move down")
              <=> 100 * OffsetY2(probe) < -(20 * canvasHeight)
        /\ Includes(probe.guidance, "Move up")
              <=> 100 * OffsetY2(probe) > 20 * canvasHeight

\* A face left of and below the centre: both positional clauses appear.
C10_Witness ==
    /\ probe.evaluated
    /\ 100 * OffsetX2(probe) < -(20 * canvasWidth)
    /\ 100 * OffsetY2(probe) > 20 * canvasHeight
    /\ Includes(probe.guidance, "Move right. Move up")

\* The width of the probed face.
FaceWidth(p) == p.face.box.xMax - p.face.box.xMin

CloserClause == "Move closer to the camera"
FartherClause == "Move farther from the camera"

\* C11: the distance clause is "Move closer to the camera" exactly when the
\* face is narrower than 0.7 * 0.4 of the frame width, "Move farther from the
\* camera" exactly when it is wider than 1.3 * 0.4 of the frame width, and
\* absent otherwise (both bounds exclusive), wherever the face is; and the
\* returned guidance holds the clause exactly when it is present.
C11_DistanceClause ==
    probe.evaluated =>
        LET closer == 10000 * FaceWidth(probe) < 2800 * canvasWidth
            farther == 10000 * FaceWidth(probe) > 5200 * canvasWidth
        IN  /\ probe.clauses[3] = CloserClause <=> closer
            /\ probe.clauses[3] = FartherClause <=> farther
            /\ probe.clauses[3] = "" <=> ~closer /\ ~farther
            /\ Includes(probe.guidance, CloserClause) <=> closer
            /\ Includes(probe.guidance, FartherClause) <=> farther

\* A face exactly 0.28 of the frame width wide, left of the centre: the
\* guidance has a horizontal clause and no distance clause.
C11_Witness ==
    /\ probe.evaluated
    /\ 10000 * FaceWidth(probe) = 2800 * canvasWidth
    /\ probe.clauses[1] = "Move right"
    /\ probe.clauses[3] = ""
    /\ ~Includes(probe.guidance, "camera")

\* The sentence made of the clauses h, v and d, written out case by case.
Composed(h, v, d) ==
    CASE h # "" /\ v # "" /\ d # "" -> h \o ". " \o v \o ". " \o d \o "."
      [] h # "" /\ v # "" /\ d = "" -> h \o ". " \o v \o "."
      [] h # "" /\ v = "" /\ d # "" -> h \o ". " \o d \o "."
      [] h = "" /\ v # "" /\ d # "" -> v \o ". " \o d \o "."
      [] h # "" /\ v = "" /\ d = "" -> h \o "."
      [] h = "" /\ v # "" /\ d = "" -> v \o "."
      [] h = "" /\ v = "" /\ d # "" -> d \o "."
      [] h = "" /\ v = "" /\ d = "" -> "Almost centered. Make small adjustments."

\* C12: the returned guidance is the non-empty clauses in the order
\* horizontal, vertical, distance, joined with ". " and ended by one period;
\* it is the fixed "Almost centered" sentence when the three clauses are
\* empty; it is never the empty string.
C12_ComposedInOrder ==
    probe.evaluated =>
        /\ probe.guidance = Composed(probe.clauses[1], probe.clauses[2], probe.clauses[3])
        /\ probe.guidance # ""
        /\ SubSeq(probe.guidance, Len(probe.guidance), Len(probe.guidance)) = "."
        /\ ~Includes(probe.guidance, "..")

\* A face left of, below and far from the camera: three clauses.
C12_Witness ==
    /\ probe.evaluated
    /\ probe.guidance = "Move right. Move up. Move closer to the camera."

\* C13: whenever the returned guidance is the "Almost centered" sentence,
\* isFaceCentered does not judge the face centered.
C13_FallbackOnlyWhenNotCentered ==
    (probe.evaluated /\ probe.guidance = AlmostCenteredMessage) => ~probe.centered

(***************************************************************************)
(* Properties of the announcement throttle.  last.input holds the call:    *)
(* its message, its interrupt flag, the time of the call and the message   *)
(* the throttle had last spoken before it.                                 *)
(***************************************************************************)
SameAsLastSpoken(call) ==
    /\ call.before.any
    /\ call.message = call.before.message

\* C2: a speakMessage call whose message is the last message the throttle
\* spoke, fewer than 3000 ms after it was spoken, issues no speech call (and
\* no other effect), whatever the interrupt flag.
C2_RepeatWithinWindowSuppressed ==
    ( /\ last.op = "speakMessage"
      /\ SameAsLastSpoken(last.input)
      /\ last.input.at - last.input.before.at < 3000 )
    => last.fx = <<>>

\* The same message again 2999 ms later, with the interrupt flag set, while
\* the first utterance is still being spoken.
C2_Witness ==
    /\ last.op = "speakMessage"
    /\ speechAvailable
    /\ SameAsLastSpoken(last.input)
    /\ last.input.at - last.input.before.at = 2999
    /\ last.input.interrupt
    /\ last.input.wasSpeaking
    /\ last.fx = <<>>

\* C3: with speech available, a speakMessage call whose message differs from
\* the last message spoken, or is the same 3000 ms or more after it was
\* spoken, issues exactly one speak call, of that message.
C3_SpeaksWhenDifferentOrElapsed ==
    ( /\ last.op = "speakMessage"
      /\ speechAvailable
      /\ \/ ~SameAsLastSpoken(last.input)
         \/ last.input.at - last.input.before.at >= 3000 )
    => /\ Len(Calls(last.fx, "speak")) = 1
       /\ Calls(last.fx, "speak")[1].text = last.input.message

\* The same message exactly 3000 ms after it was spoken is spoken again.
C3_Witness ==
    /\ last.op = "speakMessage"
    /\ SameAsLastSpoken(last.input)
    /\ last.input.at - last.input.before.at = 3000
    /\ Len(Calls(last.fx, "speak")) = 1
    /\ lastSpoken = [any |-> TRUE, message |-> last.input.message, at |-> last.input.at]

\* C14: without the platform's speech capability a speakMessage call, of any
\* message and interrupt flag, issues no speak, no cancel and no error, and
\* leaves the last announced message and its time as they were.
C14_NoSpeechNoOp ==
    [][ (last'.op = "speakMessage" /\ ~speechAvailable)
        => /\ last'.fx = <<>>
           /\ UNCHANGED <<lastAnnouncedStatus, lastAnnouncementTime, lastSpoken>> ]_vars

\* An interrupting call made some time after the page was loaded, in a
\* browser without speech.
C14_Witness ==
    /\ last.op = "speakMessage"
    /\ ~speechAvailable
    /\ last.input.interrupt
    /\ last.input.at > PageLoadDate
    /\ last.fx = <<>>
    /\ lastAnnouncedStatus = ""
    /\ lastAnnouncementTime = 0

\* The call repeats the last spoken message within the throttle window.
Suppressed(call) ==
    /\ SameAsLastSpoken(call)
    /\ call.at - call.before.at < 3000

\* C16: a speakMessage call with the interrupt flag set that the throttle
\* does not suppress, made while speech is in progress, issues a cancel and
\* then the speak call of its message, and nothing else; a call without the
\* flag, a suppressed call and a call made while nothing is being spoken
\* issue no cancel.
C16_InterruptCancelsBeforeSpeaking ==
    (last.op = "speakMessage" /\ speechAvailable) =>
        IF last.input.interrupt /\ last.input.wasSpeaking /\ ~Suppressed(last.input)
        THEN /\ Len(last.fx) = 2
             /\ last.fx[1].call = "cancel"
             /\ last.fx[2].call = "speak"
             /\ last.fx[2].text = last.input.message
        ELSE Calls(last.fx, "cancel") = <<>>

\* The centered message interrupting the guidance being spoken.
C16_Witness ==
    /\ last.op = "speakMessage"
    /\ last.input.interrupt
    /\ last.input.wasSpeaking
    /\ last.input.before.any
    /\ last.input.message # last.input.before.message
    /\ Len(last.fx) = 2
    /\ last.fx[1].call = "cancel"
    /\ last.fx[2] = Effect("speakMessage", "speak", last.input.message, TRUE)


(***************************************************************************)
(* Properties of the application.  last holds the operation that led to   *)
(* the state, its input and the effects it issued, in order.               *)
(***************************************************************************)
\* The session's phase as the page shows it: Captured from a capture that
\* displays its still until start over hides it.
Phase == IF capturedDisplay THEN "Captured" ELSE "AwaitingCenter"

CaptureOps == {"capturePhoto", "takeAndDownloadPhoto"}

\* The position in fx of the first effect of the given call; 0 when none.
FirstCall(fx, call) ==
    IF \E i \in 1..Len(fx) : fx[i].call = call
    THEN CHOOSE i \in 1..Len(fx) :
            fx[i].call = call /\ \A j \in 1..(i - 1) : fx[j].call # call
    ELSE 0

Said(fx, call, text) == \E i \in 1..Len(fx) : fx[i].call = call /\ fx[i].text = text

\* C4: a capture action (capturePhoto or takeAndDownloadPhoto) taken while
\* the status text does not contain "Centered" draws and displays no still,
\* leaves the download button, the timers, the render loop, the detector,
\* the status and the phase as they were, starts no save, and emits the
\* corrective message: spoken, or as an alert when speech is unavailable.
C4_RefusedCaptureChangesNothing ==
    [][ ( /\ last'.op \in CaptureOps
          /\ ~IncludesCentered[statusText] )
        => /\ UNCHANGED <<photoVars, loopVars, detectorVars, faceVars, speechVars, now>>
           /\ Phase' = Phase
           /\ \A call \in {"drawImage", "show", "enable", "savePhoto", "setTimeout"} :
                  FirstCall(last'.fx, call) = 0
           /\ IF speechAvailable
              THEN Said(last'.fx, "speak", CenterFirstSpoken)
              ELSE Said(last'.fx, "alert", CenterFirstAlert) ]_vars

\* Take-and-download pressed while the status says "Not centered": the
\* warning is spoken and there is no still.
C4_Witness ==
    /\ last.op = "takeAndDownloadPhoto"
    /\ ~last.input.centered
    /\ statusText = StatusNotCentered
    /\ Said(last.fx, "speak", CenterFirstSpoken)
    /\ ~photoDrawn
    /\ Phase = "AwaitingCenter"

\* The frame estimateFaces returned held a face, its first, that
\* isFaceCentered judges centered.
FrameCentered(faces) ==
    /\ Len(faces) > 0
    /\ isFaceCentered(faces[1], canvasWidth, canvasHeight)

\* C5: after a detection frame (of at most one face, in development mode,
\* with no model switch pending) the status text contains "Centered"
\* exactly when the frame held a face judged centered; the waiting, not
\* centered and no face texts do not contain "Centered".
C5_StatusSaysCenteredIffFrameCentered ==
    /\ ( /\ last.op = "renderResult"
         /\ ~last.input.threw
         /\ Len(last.input.faces) <= 1
         /\ isDev
         /\ ~isModelChanged )
       => ( IncludesCentered[statusText] <=> FrameCentered(last.input.faces) )
    /\ \A text \in {StatusWaiting, StatusNotCentered, StatusNoFace} :
          ~Includes(text, "Centered")

\* C6: after a detection frame in which the detector returned no face (in
\* development mode, with no model switch pending) the status is the "No
\* face detected" text and the frame has spoken nothing.
C6_ZeroFacesSetsNoFaceStatus ==
    ( /\ last.op = "renderResult"
      /\ ~last.input.threw
      /\ last.input.faces = <<>>
      /\ isDev
      /\ ~isModelChanged )
    => /\ statusText = StatusNoFace
       /\ FirstCall(last.fx, "speak") = 0

\* C7: at most one run of the render loop exists at any time, scheduled or
\* awaiting a call; so no two estimateFaces calls overlap and no two frames
\* are scheduled.
C7_SingleCycleInProgress == BagCardinality(tasks) <= 1

\* C8: the start-over control is displayed only in the Captured phase.
C8_StartOverOnlyFromCaptured == startOverVisible => Phase = "Captured"

\* The still of a successful capture: drawn, then displayed, the download
\* button enabled, the phase Captured.
StillTaken ==
    /\ FirstCall(last.fx, "drawImage") = 1
    /\ FirstCall(last.fx, "show") = 2
    /\ FirstCall(last.fx, "enable") = 3
    /\ photoDrawn
    /\ capturedDisplay
    /\ ~downloadDisabled
    /\ Phase = "Captured"

SuccessSpoken ==
    IF last.op = "capturePhoto" THEN CapturedSpoken
    ELSE IF last.input.mobile THEN SavingToGallery ELSE TakenSpoken
SuccessAlert ==
    IF last.op = "capturePhoto" THEN CapturedAlert
    ELSE IF last.input.mobile THEN SavingToGallery ELSE TakenAlert

\* The success message spoken right after speech was cancelled, and after
\* the still was taken.
AnnouncedAfterCancel ==
    \E i \in 5..Len(last.fx) :
        /\ last.fx[i].call = "speak"
        /\ last.fx[i].text = SuccessSpoken
        /\ last.fx[i - 1].call = "cancel"

\* C9 as claimed: a capture action taken while the status text contains
\* "Centered" takes and displays the still, enables the download, enters
\* Captured, plays the audio cue and announces success after cancelling
\* speech; a save does not come before the announcement.
C9_CaptureCuedAndAnnounced ==
    (last.op \in CaptureOps /\ last.input.centered)
    => /\ StillTaken
       /\ FirstCall(last.fx, "oscillator") = 4
       /\ AnnouncedAfterCancel
       /\ FirstCall(last.fx, "savePhoto") = 0

\* C9 amended: the still is taken, displayed and the download enabled in
\* every case; the cue is played exactly when the browser has an audio
\* context; success is spoken after a cancel when speech is available and
\* shown as an alert when it is not.  Take-and-download with speech saves
\* nothing itself: it sets the timer whose callback saves, then displays
\* start over and hides the capture button.  Without speech it saves before
\* the alert and displays start over in the same step.
C9_CaptureSucceeds ==
    /\ (last.op \in CaptureOps /\ last.input.centered)
       => LET cue == IF last.input.audio THEN 1 ELSE 0 IN
          /\ StillTaken
          /\ FirstCall(last.fx, "oscillator") = 4 * cue
          /\ IF speechAvailable
             THEN /\ FirstCall(last.fx, "cancel") = 4 + cue
                  /\ FirstCall(last.fx, "speak") = 5 + cue
                  /\ last.fx[5 + cue].text = SuccessSpoken
                  /\ FirstCall(last.fx, "alert") = 0
                  /\ FirstCall(last.fx, "savePhoto") = 0
                  /\ last.op = "takeAndDownloadPhoto"
                        => /\ FirstCall(last.fx, "setTimeout") = 6 + cue
                           /\ BagIn(Timer(SaveDelayMs), timers)
             ELSE /\ FirstCall(last.fx, "speak") = 0
                  /\ Said(last.fx, "alert", SuccessAlert)
                  /\ last.op = "takeAndDownloadPhoto"
                        => /\ FirstCall(last.fx, "savePhoto") = 4 + cue
                           /\ FirstCall(last.fx, "alert") = 5 + cue
                           /\ startOverVisible
                           /\ ~takeAndDownloadVisible
    /\ last.op = "saveTimer"
       => /\ speechAvailable
          /\ FirstCall(last.fx, "savePhoto") = 1
          /\ Said(last.fx, "speak", DisabledSpoken)
          /\ startOverVisible
          /\ ~takeAndDownloadVisible

\* Take-and-download on a centered face in a browser without speech and
\* without an audio context: the save comes before the alert.
C9_Witness ==
    /\ last.op = "takeAndDownloadPhoto"
    /\ last.input.centered
    /\ ~last.input.audio
    /\ ~speechAvailable
    /\ FirstCall(last.fx, "savePhoto") = 4
    /\ FirstCall(last.fx, "alert") = 5
    /\ Phase = "Captured"
    /\ startOverVisible

\* The speak calls the throttle issued in fx that returned.
ThrottleSpoke(fx) ==
    SelectSeq(fx, LAMBDA e : e.by = "speakMessage" /\ e.call = "speak" /\ e.ok)

\* The handlers that speak through window.speechSynthesis directly.
DirectSpeechOps == {"takeAndDownloadPhoto", "saveTimer", "startOver", "announcePosition"}

\* C15: a step in which a speak call issued by the throttle returns leaves
\* the last announced message equal to the message of the last such call
\* and its time equal to the time of the step; every other step (a call the
\* throttle suppressed, a speak call that threw, and the capture, save,
\* start-over and announce-position handlers, which speak directly) leaves
\* both as they were.
C15_RecordUpdatedOnSuccess ==
    [][ LET spoke == ThrottleSpoke(last'.fx) IN
        /\ IF spoke # <<>>
           THEN /\ lastAnnouncedStatus' = spoke[Len(spoke)].text
                /\ lastAnnouncementTime' = DateNow
           ELSE UNCHANGED <<lastAnnouncedStatus, lastAnnouncementTime>>
        /\ last'.op \in DirectSpeechOps
              => UNCHANGED <<lastAnnouncedStatus, lastAnnouncementTime>> ]_vars

\* A frame whose guidance the throttle tried to speak, the speak call
\* throwing: the record still holds the message spoken before.
C15_Witness ==
    /\ last.op = "renderResult"
    /\ lastAnnouncedStatus # ""
    /\ \E i \in 1..Len(last.fx) :
          /\ last.fx[i].by = "speakMessage"
          /\ last.fx[i].call = "speak"
          /\ ~last.fx[i].ok
          /\ last.fx[i].text # lastAnnouncedStatus
    /\ ThrottleSpoke(last.fx) = <<>>

\* C17: over the detection frames, a frame does not speak through the
\* throttle the guidance message the throttle spoke last when fewer than
\* 3000 ms have passed since: the hint of a face that keeps its position
\* is spoken at most once in a throttle window.
C17_HintNotRepeatedWithinWindow ==
    [][ last'.op = "renderResult"
        => \A i \in 1..Len(last'.fx) :
              ( /\ last'.fx[i].by = "speakMessage"
                /\ last'.fx[i].call = "speak"
                /\ last'.fx[i].text # CenteredMessage
                /\ lastSpoken.any
                /\ last'.fx[i].text = lastSpoken.message )
              => DateNow - lastSpoken.at >= ThrottleMs ]_vars

\* C18: after a detection frame with one or more faces that is drawn, the
\* status text, the cached guidance and the messages the throttle spoke are
\* those of the first face of the frame, whatever other faces it holds.
C18_FirstFaceDecides ==
    ( /\ last.op = "renderResult"
      /\ ~last.input.threw
      /\ Len(last.input.faces) > 0
      /\ ~isModelChanged
      /\ ~StatsThrows )
    => LET first == last.input.faces[1]
           centered == isFaceCentered(first, canvasWidth, canvasHeight)
           guidance == getFacePositionGuidance(first, canvasWidth, canvasHeight)
       IN  /\ statusText = IF centered THEN StatusCentered ELSE StatusNotCentered
           /\ currentFaceGuidance = guidance
           /\ \A i \in 1..Len(last.fx) :
                  last.fx[i].call = "speak"
                  => last.fx[i].text = IF centered THEN CenteredMessage ELSE guidance

\* C19: the download button is disabled as long as no still has been drawn
\* into the photo canvas, and no operation saves (shares or downloads) the
\* photo canvas in a state in which no still has been drawn.
C19_NoDownloadBeforeCapture ==
    ~photoDrawn => /\ downloadDisabled
                   /\ last.op # "downloadPhoto"
                   /\ FirstCall(last.fx, "savePhoto") = 0

\* The download button pressed after a capture, the button enabled.
C19_Witness ==
    /\ last.op = "downloadPhoto"
    /\ photoDrawn
    /\ ~downloadDisabled
    /\ FirstCall(last.fx, "savePhoto") = 1

\* C20: a save on a platform that is not mobile or has no share capability
\* clicks the download link of its file at once; a save whose fetch has
\* settled goes on to share, or clicks the download link of its file, and
\* is not rejected; a save whose share has settled has shared, or clicks
\* the download link of its file.
C20_SaveEndsSharedOrDownloaded ==
    /\ last.op = "savePhoto"
       => IF last.input.mobile /\ (last.input.hasCanShare \/ last.input.hasShare)
          THEN last.fx = <<Effect(last.input.by, "fetch", last.input.filename, TRUE)>>
          ELSE last.fx = <<fallbackDownload(last.input.filename)>>
    /\ last.op = "fetchSettles"
       => /\ FirstCall(last.fx, "rejected") = 0
          /\ \/ FirstCall(last.fx, "share") = 1
             \/ last.fx = <<fallbackDownload(last.input.filename)>>
    /\ last.op = "shareSettles"
       => \/ FirstCall(last.fx, "shared") = 1
          \/ last.fx = <<fallbackDownload(last.input.filename)>>

\* The effects of the given call a step issued from the given function.
CallsBy(fx, by, call) == SelectSeq(fx, LAMBDA e : e.by = by /\ e.call = call)

\* An estimateFaces call is in flight on the detector the variable holds.
InferenceInFlight == Count(tasks, Estimate("current")) > 0

\* C21: when estimateFaces throws, the error is shown in an alert, the
\* detector, live until then, is disposed once and the variable set to null,
\* the frame changes neither the status nor the guidance and speaks nothing;
\* and while the variable is null no inference is in flight on it.
C21_InferenceFailureHandled ==
    /\ [][ ( /\ last'.op = "renderResult"
             /\ last'.input.threw )
           => /\ CallsBy(last'.fx, "renderResult", "alert") # <<>>
              /\ Calls(last'.fx, "dispose") = <<Effect("renderResult", "dispose", "live", TRUE)>>
              /\ detector' = "null"
              /\ UNCHANGED faceVars
              /\ Calls(last'.fx, "speak") = <<>> ]_vars
    /\ [](detector = "null" => ~InferenceInFlight)

\* The starts and switches whose construction of the backend or of the
\* detector failed.
ConstructionOps == {"app", "setBackendAndEnvFlags", "createDetector"}

\* C22: when setBackendAndEnvFlags or createDetector fails, in app() at the
\* start or in checkGuiUpdate on a switch, the failure is caught and shown
\* in an alert, the variable detector is null, and the render loop goes on:
\* the next frame is requested and no inference is in flight.
C22_ConstructionFailureAlerted ==
    ( /\ last.op \in ConstructionOps
      /\ ~last.input.ok )
    => /\ Calls(last.fx, "alert") # <<>>
       /\ Calls(last.fx, "rejected") = <<>>
       /\ detector = "null"
       /\ Count(tasks, CurrentFrame) > 0
       /\ ~InferenceInFlight

\* C23: in a step taken while the variable detector is null the status text
\* is not changed, and a capture action (capturePhoto or
\* takeAndDownloadPhoto) draws and displays no still.
C23_NullDetectorDisablesCapture ==
    [][ detector = "null"
        => /\ statusText' = statusText
           /\ last'.op \in CaptureOps
              => /\ Calls(last'.fx, "drawImage") = <<>>
                 /\ UNCHANGED <<photoDrawn, capturedDisplay, downloadDisabled>> ]_vars

\* The step that led to the record op was a failure: of createDetector or
\* of setBackendAndEnvFlags on a switch, of estimateFaces on a frame, or a
\* capture refused because the status does not say "Centered".
IsFailure(op) ==
    \/ op.op \in {"createDetector", "setBackendAndEnvFlags"} /\ ~op.input.ok
    \/ op.op = "renderResult" /\ op.input.threw
    \/ op.op \in CaptureOps /\ ~op.input.centered

\* The runs of renderPrediction alive: requested frames and runs awaiting.
Runs == BagCardinality(tasks)

\* C24: a failure ends no run of the render loop: after the step of the
\* failure as many runs are alive as before it, and the run that met the
\* failure in createDetector, setBackendAndEnvFlags or estimateFaces has
\* requested the next frame.
C24_FailuresKeepLoopRunning ==
    [][ IsFailure(last')
        => /\ Runs' >= Runs
           /\ last'.op \notin CaptureOps => Count(tasks', CurrentFrame) > 0 ]_vars

\* The frame of the step was drawn: estimateFaces returned faces, no switch
\* was pending and endEstimateFaceStats did not throw.
FrameDrawn ==
    /\ last'.op = "renderResult"
    /\ ~last'.input.threw
    /\ Len(last'.input.faces) > 0
    /\ ~isModelChanged
    /\ ~StatsThrows

\* What a drawn frame leaves when its face sets the status to text and
\* passes message to the throttle with the given interrupt.
Announces(text, message, interrupt) ==
    LET st == speakMessage([FaceState(last'.input.wasSpeaking) EXCEPT !.statusText = text],
                           message, interrupt, DateNow, TRUE)
    IN  /\ statusText' = text
        /\ last'.fx = st.fx
        /\ lastAnnouncedStatus' = st.lastAnnouncedStatus
        /\ lastAnnouncementTime' = st.lastAnnouncementTime

C26_TransitionInterrupts ==
    [][ ( /\ FrameDrawn
          /\ Len(last'.input.faces) = 1
          /\ ~isFaceCentered(last'.input.faces[1], canvasWidth, canvasHeight)
          /\ statusText = StatusCentered
          /\ speechAvailable
          /\ lastAnnouncedStatus = CenteredMessage
          /\ last'.input.wasSpeaking )
        => last'.fx =
             << Effect("speakMessage", "cancel", "", TRUE),
                Effect("speakMessage", "speak",
                       getFacePositionGuidance(last'.input.faces[1], canvasWidth, canvasHeight),
                       TRUE) >> ]_vars

\* C27: a drawn frame of one face judged centered does not run the guidance
\* composer: window.currentFaceGuidance, which holds what the composer
\* returned last, is left as it was.
C27_ComposerSkippedWhenCentered ==
    [][ ( /\ FrameDrawn
          /\ Len(last'.input.faces) = 1
          /\ isFaceCentered(last'.input.faces[1], canvasWidth, canvasHeight) )
        => currentFaceGuidance' = currentFaceGuidance ]_vars

\* A switch is in progress: a run of checkGuiUpdate awaits
\* setBackendAndEnvFlags or createDetector.
SwitchInProgress ==
    \E t \in BagToSet(tasks) : t.pc \in {"backend", "create"}

\* The estimateFaces calls in flight, on any detector.
Inferences ==
    Count(tasks, Estimate("current")) + Count(tasks, Estimate("replaced"))
        + Count(tasks, Estimate("disposed"))

\* The step is the return of an estimateFaces call while a model switch is
\* pending or in progress.
OldResultReturns ==
    /\ last'.op = "renderResult"
    /\ ~last'.input.threw
    /\ isModelChanged

\* The step drew nothing: no status, no guidance, no speech.
NothingDrawn ==
    /\ UNCHANGED faceVars
    /\ Calls(last'.fx, "speak") = <<>>
    /\ Calls(last'.fx, "cancel") = <<>>

\* C28: the frame that finds a switch pending leaves no frame requested and
\* the detector disposed (or null) before the replacement is constructed;
\* while a switch is in progress no frame is drawn and no inference starts,
\* but for the one that follows the end of the switch; and the result of an
\* inference that returns while a model switch is pending or in progress is
\* not drawn.
C28_SwitchCancelsDisposesDiscards ==
    [][ /\ ( last'.op = "renderPrediction" /\ last'.input.switch )
           => /\ Count(tasks', CurrentFrame) = 0
              /\ detector' \in {"disposed", "null"}
              /\ detector = "live"
                 => last'.fx = <<Effect("checkGuiUpdate", "dispose", "live", TRUE)>>
        /\ SwitchInProgress
           => /\ last'.op = "renderResult" => NothingDrawn
              /\ last'.op # "createDetector" => Inferences' <= Inferences
              /\ last'.op = "createDetector" => ~SwitchInProgress'
        /\ OldResultReturns => NothingDrawn ]_vars

\* The steps of the render loop.
LoopOps == {"renderPrediction", "renderResult", "setBackendAndEnvFlags", "createDetector"}

\* C29: from disableAppAndShowStartOver until start over (the start-over
\* button is displayed) the detection loop takes no step: no frame is
\* processed, the status and the guidance are not changed and the throttle
\* announces nothing.
C29_LoopStoppedWhileCaptured ==
    [][ startOverVisible
        => /\ last'.op \notin LoopOps
           /\ UNCHANGED <<faceVars, lastAnnouncedStatus, lastAnnouncementTime>>
           /\ \A i \in 1..Len(last'.fx) : last'.fx[i].by # "speakMessage" ]_vars

\* C30: start over leaves the phase AwaitingCenter, and a capture action
\* taken next, before any frame has been processed since the reset, is
\* refused: it finds the status not centered and draws no still.
C30_CaptureRefusedAfterStartOver ==
    [][ /\ last'.op = "startOver" => Phase' = "AwaitingCenter"
        /\ ( /\ last.op = "startOver"
             /\ last'.op \in CaptureOps )
           => /\ ~last'.input.centered
              /\ Calls(last'.fx, "drawImage") = <<>>
              /\ Phase' = "AwaitingCenter" ]_vars

\* A take-and-download capture has succeeded and start over has not been
\* pressed since: its delayed save is pending, or the application is
\* disabled and shows the start-over button.
CaptureSessionOpen == timers # EmptyBag \/ startOverVisible

\* C31: between a successful take-and-download capture and the next start
\* over no second take-and-download capture succeeds, so that the session has one still, one
\* delayed save pending at most, and one run of disableAppAndShowStartOver:
\* the callback of the save never runs on an application already disabled.
C31_OneCapturePerSession ==
    /\ [][ CaptureSessionOpen
           => /\ ~( last'.op = "takeAndDownloadPhoto" /\ last'.input.centered )
              /\ last'.op = "saveTimer" => ~startOverVisible ]_vars
    /\ [](BagCardinality(timers) <= 1)

\* C32: no estimateFaces call is in flight on a disposed detector, whether
\* the variable detector still holds it or not, and dispose is only ever
\* called on a detector that has not been disposed before.
C32_NoUseAfterDispose ==
    /\ Count(tasks, Estimate("disposed")) = 0
    /\ detector = "disposed" => ~InferenceInFlight
    /\ \A i \in 1..Len(last.fx) :
          last.fx[i].call = "dispose" => last.fx[i].text = "live"

\* C33: in production, where setupStats is not called, the return of
\* estimateFaces (or its failure, on a detector the variable still holds)
\* never ends the run in endEstimateFaceStats: renderPrediction does not
\* reject, a frame with faces is drawn when no model switch is pending, and
\* the next frame is requested.
C33_StatsNeverDereferencedUnset ==
    [][ ( /\ last'.op = "renderResult"
          /\ ~isDev
          /\ detector # "null" )
        => /\ Calls(last'.fx, "rejected") = <<>>
           /\ Count(tasks', CurrentFrame) > 0
           /\ ( /\ ~last'.input.threw
                /\ Len(last'.input.faces) > 0
                /\ ~isModelChanged )
              => statusText' \in {StatusCentered, StatusNotCentered} ]_vars

=============================================================================
